---- MODULE Spec2Model ----
(***************************************************************************)
(* The lot ledger of src/db.rs: TrackedAccount's lot arithmetic            *)
(* (extract_lots, merge_lots) and the Db handlers that move lots between   *)
(* tracked accounts, pending transfers, open orders and disposed lots.     *)
(*                                                                         *)
(* Representation.  Option<T> is a sequence of length 0 (None) or 1        *)
(* (Some).  A DbResult is a record [tag, of]: tag "Ok", the name of a      *)
(* DbError variant, or "Panic" for a failed assert!/assert_eq! (the        *)
(* process aborts: no handler runs afterwards).  The PickleDb keys are the *)
(* fields of the record `db`; a key that was never set reads as the empty  *)
(* list (lexists false / unwrap_or_default), the counter key excepted,     *)
(* whose absence is kept as None.  The transitory sweep-stake addresses    *)
(* are read back into a HashSet and are kept as a set.  PickleDb::dump copies the in-memory     *)
(* keys to the file, modelled by `disk`.  Storage (Io/PickleDb) errors are *)
(* not modelled.  Amounts are natural numbers: every sum stays far below   *)
(* 2^64, so u64 arithmetic never wraps.  Prices are never NaN (a NaN does  *)
(* not survive the store's JSON encoding), so PartialEq on LotAcquistion   *)
(* is equality of its three fields.  description and last_update_epoch of  *)
(* a TrackedAccount are carried through every handler untouched and are    *)
(* left out.                                                               *)
(***************************************************************************)
EXTENDS Integers, Sequences, FiniteSets, TLC

VARIABLES accounts, deposits, transfers, orders, disposed_lots,
          next_lot_number, transitory_sweep_stake_accounts,
          auto_save, disk, last, calls

vars == <<accounts, deposits, transfers, orders, disposed_lots,
          next_lot_number, transitory_sweep_stake_accounts,
          auto_save, disk, last, calls>>

----------------------------------------------------------------------------
\* Bounds of the model.

\* most calls of one run that leave a trace: calls that return Ok, panic, or
\* fail after changing the store
MaxCalls == 2
\* most lots of the account drawn for the lot-arithmetic specification
MaxLots == 3

----------------------------------------------------------------------------
\* Values.

None == <<>>
Some(x) == <<x>>
unwrap_or(o, default) == IF o = <<>> THEN default ELSE o[1]

Ok == [tag |-> "Ok", of |-> ""]
Err(tag, of) == [tag |-> tag, of |-> of]
Panic == [tag |-> "Panic", of |-> ""]

LotAcquistion(when, price, kind) == [when |-> when, price |-> price, kind |-> kind]
Lot(lot_number, acquisition, amount) == [lot_number |-> lot_number, acquisition |-> acquisition, amount |-> amount]
TrackedAccount(address, last_update_balance, lots) == [address |-> address, last_update_balance |-> last_update_balance, lots |-> lots]
PendingDeposit(signature, exchange, amount) == [signature |-> signature, exchange |-> exchange, amount |-> amount]
PendingTransfer(signature, from_address, to_address, lots) == [signature |-> signature, from_address |-> from_address, to_address |-> to_address, lots |-> lots]
OpenOrder(exchange, pair, order_id, lots, deposit_address) == [exchange |-> exchange, pair |-> pair, order_id |-> order_id, lots |-> lots, deposit_address |-> deposit_address]
LotDisposalKind(exchange, pair, order_id) == [exchange |-> exchange, pair |-> pair, order_id |-> order_id]
DisposedLot(lot, when, price, kind) == [lot |-> lot, when |-> when, price |-> price, kind |-> kind]

\* Db: the in-memory PickleDb `db`, the dumped file `disk`, the auto_save flag.
EmptyStore == [accounts |-> <<>>, deposits |-> <<>>, transfers |-> <<>>, orders |-> <<>>, disposed_lots |-> <<>>, next_lot_number |-> None, transitory_sweep_stake_accounts |-> {}]
Db(db, file, flag) == [db |-> db, disk |-> file, auto_save |-> flag]

----------------------------------------------------------------------------
\* Sequence helpers (Vec operations the code uses).

RemoveAt(s, i) == SubSeq(s, 1, i - 1) \o SubSeq(s, i + 1, Len(s))

\* Iterator::find / position over a Vec: the least index of a set of indices,
\* 0 when the set is empty (no element found)
FirstIndex(S) == IF S = {} THEN 0 ELSE CHOOSE i \in S : \A j \in S : i <= j

\* lots.iter().map(|lot| lot.amount).sum()
RECURSIVE SumAmounts(_)
SumAmounts(lots) == IF lots = <<>> THEN 0 ELSE Head(lots).amount + SumAmounts(Tail(lots))

\* one insertion of the stable sort: after every lot whose date is not later
RECURSIVE InsertByWhen(_, _)
InsertByWhen(sorted, lot) == IF sorted = <<>> THEN <<lot>> ELSE IF Head(sorted).acquisition.when <= lot.acquisition.when THEN <<Head(sorted)>> \o InsertByWhen(Tail(sorted), lot) ELSE <<lot>> \o sorted

\* lots.sort_by_key(|lot| lot.acquisition.when): a stable sort
RECURSIVE sort_by_key(_)
sort_by_key(lots) == IF lots = <<>> THEN <<>> ELSE InsertByWhen(sort_by_key(SubSeq(lots, 1, Len(lots) - 1)), lots[Len(lots)])

----------------------------------------------------------------------------
\* Db helpers used by the lot arithmetic.

\* next_lot_number that returns the counter and leaves it as it is
next_lot_number_stuck(self) == [db |-> self, lot_number |-> unwrap_or(self.db.next_lot_number, 0)]

\* Db::next_lot_number: returns the counter (0 when absent), stores it plus one
next_lot_number_of(self) == LET lot_number == unwrap_or(self.db.next_lot_number, 0) IN [db |-> [self EXCEPT !.db.next_lot_number = Some(lot_number + 1)], lot_number |-> lot_number]

\* TrackedAccount::assert_lot_balance: TRUE when the assertion passes
assert_lot_balance(account) == SumAmounts(account.lots) = account.last_update_balance

\* reserve_last without the rotation: the oldest lot is consumed first
reserve_last_skipped(lots) == lots

\* the rent-reserve rotation: the oldest lot of the sorted list goes last
reserve_last(lots) == IF lots # <<>> THEN Append(Tail(lots), Head(lots)) ELSE lots

\* extract_step whose split piece keeps the lot number of the lot it splits
extract_step_same_number(st, lot) == IF st.amount_remaining > 0 THEN (IF lot.amount <= st.amount_remaining THEN [st EXCEPT !.amount_remaining = @ - lot.amount, !.extracted_lots = Append(@, lot)] ELSE [st EXCEPT !.self_lots = Append(@, [lot EXCEPT !.amount = @ - st.amount_remaining]), !.extracted_lots = Append(@, Lot(lot.lot_number, lot.acquisition, st.amount_remaining)), !.amount_remaining = 0]) ELSE [st EXCEPT !.self_lots = Append(@, lot)]

\* extract_step whose split takes the whole lot instead of the remainder
extract_step_whole(st, lot) == IF st.amount_remaining > 0 THEN (IF lot.amount <= st.amount_remaining THEN [st EXCEPT !.amount_remaining = @ - lot.amount, !.extracted_lots = Append(@, lot)] ELSE [st EXCEPT !.amount_remaining = 0, !.extracted_lots = Append(@, lot)]) ELSE [st EXCEPT !.self_lots = Append(@, lot)]

\* one iteration of the `for mut lot in lots` loop of extract_lots
extract_step(st, lot) == IF st.amount_remaining > 0 THEN (IF lot.amount <= st.amount_remaining THEN [st EXCEPT !.amount_remaining = @ - lot.amount, !.extracted_lots = Append(@, lot)] ELSE LET n == next_lot_number_of(st.db) split_lot == Lot(n.lot_number, lot.acquisition, st.amount_remaining) IN [self_lots |-> Append(st.self_lots, [lot EXCEPT !.amount = @ - st.amount_remaining]), extracted_lots |-> Append(st.extracted_lots, split_lot), amount_remaining |-> 0, db |-> n.db]) ELSE [st EXCEPT !.self_lots = Append(@, lot)]

RECURSIVE extract_loop(_, _)
extract_loop(lots, st) == IF lots = <<>> THEN st ELSE extract_loop(Tail(lots), extract_step(st, Head(lots)))

\* TrackedAccount::extract_lots(&mut self, db, amount): the result, the account
\* as it is left, the extracted lots and the Db (its counter may have moved)
extract_lots(self, db, amount) == IF self.last_update_balance < amount THEN [res |-> Err("AccountHasInsufficientBalance", self.address), self |-> self, lots |-> <<>>, db |-> db] ELSE LET lots == reserve_last(sort_by_key(self.lots)) st == extract_loop(lots, [self_lots |-> <<>>, extracted_lots |-> <<>>, amount_remaining |-> amount, db |-> db]) self_lots == sort_by_key(st.self_lots) extracted_lots == sort_by_key(st.extracted_lots) left == [self EXCEPT !.lots = self_lots, !.last_update_balance = @ - amount] IN IF SumAmounts(extracted_lots) # amount THEN [res |-> Panic, self |-> [self EXCEPT !.lots = self_lots], lots |-> extracted_lots, db |-> st.db] ELSE IF ~assert_lot_balance(left) THEN [res |-> Panic, self |-> left, lots |-> extracted_lots, db |-> st.db] ELSE [res |-> Ok, self |-> left, lots |-> extracted_lots, db |-> st.db]

\* merge_step matching on the acquisition date alone
merge_step_by_date(self_lots, lot) == LET i == FirstIndex({j \in 1..Len(self_lots) : self_lots[j].acquisition.when = lot.acquisition.when}) IN IF i # 0 THEN [self_lots EXCEPT ![i].amount = @ + lot.amount] ELSE Append(self_lots, lot)

\* the body of merge_lots' loop: add onto the first lot of equal acquisition,
\* else push the lot
merge_step(self_lots, lot) == LET i == FirstIndex({j \in 1..Len(self_lots) : self_lots[j].acquisition = lot.acquisition}) IN IF i # 0 THEN [self_lots EXCEPT ![i].amount = @ + lot.amount] ELSE Append(self_lots, lot)

RECURSIVE merge_loop(_, _)
merge_loop(self_lots, lots) == IF lots = <<>> THEN self_lots ELSE merge_loop(merge_step(self_lots, Head(lots)), Tail(lots))

\* TrackedAccount::merge_lots(&mut self, lots): the result (Ok or Panic) and the account
merge_lots(self, lots) == LET merged == [self EXCEPT !.lots = merge_loop(self.lots, lots), !.last_update_balance = @ + SumAmounts(lots)] IN [res |-> IF assert_lot_balance(merged) THEN Ok ELSE Panic, self |-> merged]

----------------------------------------------------------------------------
\* Db: flushing and the account registry.

\* Db::save: dump the in-memory store to the file when auto_save is on
save(self) == IF self.auto_save THEN [self EXCEPT !.disk = self.db] ELSE self

\* Db::auto_save(flag): set the flag, then save
auto_save_fn(self, flag) == save([self EXCEPT !.auto_save = flag])

\* Db::get_account_position: index of the first account with the address, 0 for None
get_account_position(self, address) == FirstIndex({i \in 1..Len(self.db.accounts) : self.db.accounts[i].address = address})

\* Db::get_account: the first account with the address
get_account(self, address) ==
    LET position == get_account_position(self, address)
    IN IF position = 0 THEN None ELSE Some(self.db.accounts[position])

\* add_account_no_save without the check that the address is new
add_account_no_save_unguarded(self, account) ==
    IF ~assert_lot_balance(account) THEN [db |-> self, res |-> Panic]
    ELSE [db |-> [self EXCEPT !.db.accounts = Append(@, account)], res |-> Ok]

\* Db::add_account_no_save
add_account_no_save(self, account) ==
    IF ~assert_lot_balance(account) THEN [db |-> self, res |-> Panic]
    ELSE IF get_account(self, account.address) # None
         THEN [db |-> self, res |-> Err("AccountAlreadyExists", account.address)]
         ELSE [db |-> [self EXCEPT !.db.accounts = Append(@, account)], res |-> Ok]

\* Db::add_account
add_account(self, account) ==
    LET r == add_account_no_save(self, account)
    IN IF r.res # Ok THEN r ELSE [db |-> save(r.db), res |-> Ok]

\* update_account that adds the record and leaves the old one in the list
update_account_kept(self, account) ==
    IF ~assert_lot_balance(account) THEN [db |-> self, res |-> Panic]
    ELSE LET position == get_account_position(self, account.address)
         IN IF position = 0
            THEN [db |-> self, res |-> Err("AccountDoesNotExist", account.address)]
            ELSE [db |-> save([self EXCEPT !.db.accounts = Append(@, account)]), res |-> Ok]

\* update_account without the assertion on the incoming record
update_account_unchecked(self, account) ==
    LET position == get_account_position(self, account.address)
    IN IF position = 0
       THEN [db |-> self, res |-> Err("AccountDoesNotExist", account.address)]
       ELSE [db |-> save([self EXCEPT !.db.accounts = Append(RemoveAt(@, position), account)]), res |-> Ok]

\* Db::update_account: lpop at the account's position, ladd at the end, save
update_account(self, account) ==
    IF ~assert_lot_balance(account) THEN [db |-> self, res |-> Panic]
    ELSE LET position == get_account_position(self, account.address)
         IN IF position = 0
            THEN [db |-> self, res |-> Err("AccountDoesNotExist", account.address)]
            ELSE [db |-> save([self EXCEPT !.db.accounts = Append(RemoveAt(@, position), account)]), res |-> Ok]

\* Db::remove_account_no_save
remove_account_no_save(self, address) ==
    LET position == get_account_position(self, address)
    IN IF position = 0
       THEN [db |-> self, res |-> Err("AccountDoesNotExist", address)]
       ELSE [db |-> [self EXCEPT !.db.accounts = RemoveAt(@, position)], res |-> Ok]

\* Db::remove_account
remove_account(self, address) ==
    LET r == remove_account_no_save(self, address)
    IN IF r.res # Ok THEN r ELSE [db |-> save(r.db), res |-> Ok]

\* Db::get_transitory_sweep_stake_addresses
get_transitory_sweep_stake_addresses(self) == self.db.transitory_sweep_stake_accounts

\* Db::set_transitory_sweep_stake_addresses: set the key, save
set_transitory_sweep_stake_addresses(self, addresses) == [db |-> save([self EXCEPT !.db.transitory_sweep_stake_accounts = addresses]), res |-> Ok]

\* Db::add_transitory_sweep_stake_address: the address is stored and saved,
\* then an empty account is added with add_account_no_save (no save follows)
add_transitory_sweep_stake_address(self, address) ==
    LET transitory_sweep_stake_addresses == get_transitory_sweep_stake_addresses(self)
    IN IF address \in transitory_sweep_stake_addresses
       THEN [db |-> self, res |-> Err("AccountAlreadyExists", address)]
       ELSE add_account_no_save(set_transitory_sweep_stake_addresses(self, transitory_sweep_stake_addresses \cup {address}).db, TrackedAccount(address, 0, <<>>))

\* Db::remove_transitory_sweep_stake_address: the result of
\* remove_account_no_save is dropped
remove_transitory_sweep_stake_address(self, address) ==
    LET removed == remove_account_no_save(self, address).db
        transitory_sweep_stake_addresses == get_transitory_sweep_stake_addresses(removed)
    IN IF address \notin transitory_sweep_stake_addresses
       THEN [db |-> removed, res |-> Err("AccountDoesNotExist", address)]
       ELSE set_transitory_sweep_stake_addresses(removed, transitory_sweep_stake_addresses \ {address})

----------------------------------------------------------------------------
\* Db: the transfer lifecycle.

\* record_transfer that stores the pending transfer and never writes the
\* reduced from_address account back
record_transfer_unreduced(self, signature, from_address, amount, to_address) ==
    LET pending_transfers == self.db.transfers
        from_account == get_account(self, from_address)
        to_account == get_account(self, to_address)
    IN IF from_account = None THEN [db |-> self, res |-> Err("AccountDoesNotExist", from_address)]
       ELSE IF to_account = None THEN [db |-> self, res |-> Err("AccountDoesNotExist", to_address)]
       ELSE LET e == extract_lots(from_account[1], self, unwrap_or(amount, from_account[1].last_update_balance))
                pushed == Append(pending_transfers, PendingTransfer(signature, from_address, to_address, e.lots))
            IN IF e.res # Ok THEN [db |-> e.db, res |-> e.res]
               ELSE [db |-> save([e.db EXCEPT !.db.transfers = pushed]), res |-> Ok]

\* record_transfer that looks up to_address after extracting the lots
record_transfer_late_lookup(self, signature, from_address, amount, to_address) ==
    LET pending_transfers == self.db.transfers
        from_account == get_account(self, from_address)
        to_account == get_account(self, to_address)
    IN IF from_account = None THEN [db |-> self, res |-> Err("AccountDoesNotExist", from_address)]
       ELSE LET e == extract_lots(from_account[1], self, unwrap_or(amount, from_account[1].last_update_balance))
                pushed == Append(pending_transfers, PendingTransfer(signature, from_address, to_address, e.lots))
            IN IF e.res # Ok THEN [db |-> e.db, res |-> e.res]
               ELSE IF to_account = None THEN [db |-> e.db, res |-> Err("AccountDoesNotExist", to_address)]
               ELSE update_account([e.db EXCEPT !.db.transfers = pushed], e.self)


\* Db::record_transfer; amount is an Option (None = all)
record_transfer(self, signature, from_address, amount, to_address) ==
    LET pending_transfers == self.db.transfers
        from_account == get_account(self, from_address)
        to_account == get_account(self, to_address)
    IN IF from_account = None THEN [db |-> self, res |-> Err("AccountDoesNotExist", from_address)]
       ELSE IF to_account = None THEN [db |-> self, res |-> Err("AccountDoesNotExist", to_address)]
       ELSE LET e == extract_lots(from_account[1], self, unwrap_or(amount, from_account[1].last_update_balance))
                pushed == Append(pending_transfers, PendingTransfer(signature, from_address, to_address, e.lots))
            IN IF e.res # Ok THEN [db |-> e.db, res |-> e.res]
               ELSE update_account([e.db EXCEPT !.db.transfers = pushed], e.self)

\* complete_transfer that removes the pending transfer it found and keeps
\* the others of the signature
complete_transfer_first_only(self, signature, success) ==
    LET pending_transfers == self.db.transfers
        found == FirstIndex({i \in 1..Len(pending_transfers) : pending_transfers[i].signature = signature})
    IN IF found = 0 THEN [db |-> self, res |-> Err("PendingTransferDoesNotExist", signature)]
       ELSE LET pt == pending_transfers[found]
                s1 == [self EXCEPT !.db.transfers = RemoveAt(pending_transfers, found)]
                from_account == get_account(s1, pt.from_address)
                to_account == get_account(s1, pt.to_address)
            IN IF from_account = None THEN [db |-> s1, res |-> Err("AccountDoesNotExist", pt.from_address)]
               ELSE IF to_account = None THEN [db |-> s1, res |-> Err("AccountDoesNotExist", pt.to_address)]
               ELSE LET m == IF success THEN merge_lots(to_account[1], pt.lots) ELSE merge_lots(from_account[1], pt.lots)
                        to_merged == IF success THEN m.self ELSE to_account[1]
                        from_merged == IF success THEN from_account[1] ELSE m.self
                        u1 == update_account(auto_save_fn(s1, FALSE), to_merged)
                        u2 == update_account(u1.db, from_merged)
                    IN IF m.res # Ok THEN [db |-> s1, res |-> m.res]
                       ELSE IF u1.res # Ok THEN u1
                       ELSE IF u2.res # Ok THEN u2
                       ELSE [db |-> auto_save_fn(u2.db, TRUE), res |-> Ok]

\* Db::complete_transfer
complete_transfer(self, signature, success) ==
    LET pending_transfers == self.db.transfers
        found == FirstIndex({i \in 1..Len(pending_transfers) : pending_transfers[i].signature = signature})
    IN IF found = 0 THEN [db |-> self, res |-> Err("PendingTransferDoesNotExist", signature)]
       ELSE LET pt == pending_transfers[found]
                keep(p) == p.signature # pt.signature
                s1 == [self EXCEPT !.db.transfers = SelectSeq(pending_transfers, keep)]
                from_account == get_account(s1, pt.from_address)
                to_account == get_account(s1, pt.to_address)
            IN IF from_account = None THEN [db |-> s1, res |-> Err("AccountDoesNotExist", pt.from_address)]
               ELSE IF to_account = None THEN [db |-> s1, res |-> Err("AccountDoesNotExist", pt.to_address)]
               ELSE LET m == IF success THEN merge_lots(to_account[1], pt.lots) ELSE merge_lots(from_account[1], pt.lots)
                        to_merged == IF success THEN m.self ELSE to_account[1]
                        from_merged == IF success THEN from_account[1] ELSE m.self
                        u1 == update_account(auto_save_fn(s1, FALSE), to_merged)
                        u2 == update_account(u1.db, from_merged)
                    IN IF m.res # Ok THEN [db |-> s1, res |-> m.res]
                       ELSE IF u1.res # Ok THEN u1
                       ELSE IF u2.res # Ok THEN u2
                       ELSE [db |-> auto_save_fn(u2.db, TRUE), res |-> Ok]

\* Db::cancel_transfer
cancel_transfer(self, signature) == complete_transfer(self, signature, FALSE)

\* Db::confirm_transfer
confirm_transfer(self, signature) == complete_transfer(self, signature, TRUE)

\* Db::complete_transfer, statement by statement: the Db value after each
\* statement that writes the store, the flag or the file, in order:
\*   1  db.set("transfers", ..)        (732)
\*   2  auto_save(false)               (747)
\*   3  update_account(to_account)     (748)
\*   4  update_account(from_account)   (749)
\*   5  auto_save(true)                (750)
\* The list ends where the method returns; it is empty when no pending
\* transfer has the signature.  The disk of an element is the file a crash
\* right after that statement leaves behind.
complete_transfer_steps(self, signature, success) ==
    LET pending_transfers == self.db.transfers
        found == FirstIndex({i \in 1..Len(pending_transfers) : pending_transfers[i].signature = signature})
    IN IF found = 0 THEN <<>>
       ELSE LET pt == pending_transfers[found]
                keep(p) == p.signature # pt.signature
                s1 == [self EXCEPT !.db.transfers = SelectSeq(pending_transfers, keep)]
                from_account == get_account(s1, pt.from_address)
                to_account == get_account(s1, pt.to_address)
            IN IF from_account = None \/ to_account = None THEN <<s1>>
               ELSE LET m == IF success THEN merge_lots(to_account[1], pt.lots) ELSE merge_lots(from_account[1], pt.lots)
                        to_merged == IF success THEN m.self ELSE to_account[1]
                        from_merged == IF success THEN from_account[1] ELSE m.self
                        s2 == auto_save_fn(s1, FALSE)
                        u1 == update_account(s2, to_merged)
                        u2 == update_account(u1.db, from_merged)
                    IN IF m.res # Ok THEN <<s1>>
                       ELSE IF u1.res # Ok THEN <<s1, s2>>
                       ELSE IF u2.res # Ok THEN <<s1, s2, u1.db>>
                       ELSE <<s1, s2, u1.db, u2.db, auto_save_fn(u2.db, TRUE)>>

----------------------------------------------------------------------------
\* Db: the deposit lifecycle.

\* Db::record_deposit: the deposit is added before record_transfer runs
record_deposit(self, signature, from_address, amount, exchange, deposit_address) ==
    LET deposit == PendingDeposit(signature, exchange, amount)
    IN record_transfer([self EXCEPT !.db.deposits = Append(@, deposit)], signature, from_address, Some(amount), deposit_address)

\* Db::complete_deposit
complete_deposit(self, signature, success) ==
    LET pending_deposits == self.db.deposits
        found == FirstIndex({i \in 1..Len(pending_deposits) : pending_deposits[i].signature = signature})
        keep(pd) == pd.signature # signature
    IN IF found = 0 THEN [db |-> self, res |-> Err("PendingDepositDoesNotExist", signature)]
       ELSE complete_transfer([self EXCEPT !.db.deposits = SelectSeq(pending_deposits, keep)], pending_deposits[found].signature, success)

\* Db::cancel_deposit passes success = true, as the code does
cancel_deposit(self, signature) == complete_deposit(self, signature, TRUE)

\* Db::confirm_deposit
confirm_deposit(self, signature) == complete_deposit(self, signature, TRUE)

----------------------------------------------------------------------------
\* Db: the order lifecycle.

\* Db::record_order
record_order(self, deposit_account, exchange, pair, order_id, lots) ==
    LET open_orders == Append(self.db.orders, OpenOrder(exchange, pair, order_id, lots, deposit_account.address))
    IN update_account([self EXCEPT !.db.orders = open_orders], deposit_account)

\* the DisposedLot entries complete_order pushes for the lots of a filled order
RECURSIVE dispose(_, _, _, _)
dispose(lots, when, price, kind) == IF lots = <<>> THEN <<>> ELSE <<DisposedLot(Head(lots), when, price, kind)>> \o dispose(Tail(lots), when, price, kind)

\* Db::complete_order; filled is an Option of <<price, when>>
complete_order(self, order_id, filled) ==
    LET open_orders == self.db.orders
        found == FirstIndex({i \in 1..Len(open_orders) : open_orders[i].order_id = order_id})
    IN IF found = 0 THEN [db |-> self, res |-> Err("OpenOrderDoesNotExist", order_id)]
       ELSE LET o == open_orders[found]
                keep(x) == x.order_id # o.order_id
                s1 == [self EXCEPT !.db.orders = SelectSeq(open_orders, keep)]
                deposit_account == get_account(s1, o.deposit_address)
            IN IF filled # None
               THEN LET kind == LotDisposalKind(o.exchange, o.pair, o.order_id)
                        pushed == s1.db.disposed_lots \o dispose(o.lots, filled[1][2], filled[1][1], kind)
                    IN [db |-> save([s1 EXCEPT !.db.disposed_lots = pushed]), res |-> Ok]
               ELSE IF deposit_account = None THEN [db |-> s1, res |-> Err("AccountDoesNotExist", o.deposit_address)]
               ELSE LET m == merge_lots(deposit_account[1], o.lots)
                    IN IF m.res # Ok THEN [db |-> s1, res |-> m.res] ELSE update_account(s1, m.self)

\* cancel_order that resolves the order as filled
cancel_order_filled(self, order_id) == complete_order(self, order_id, Some(<<0, 0>>))

\* Db::cancel_order
cancel_order(self, order_id) == complete_order(self, order_id, None)

\* Db::confirm_order
confirm_order(self, order_id, price, when) == complete_order(self, order_id, Some(<<price, when>>))

----------------------------------------------------------------------------
\* Inputs the handlers are called with.

Addresses == {"A", "B"}
Signatures == {"s1", "s2"}
OrderIds == {"o1", "o2"}
Exchanges == {"Ftx"}
Pairs == {"SOLUSD"}
FillPrices == {25}
FillDates == {6}

\* Acquisitions: three dates, and two prices on the same date
Acq1 == LotAcquistion(1, 10, "NotAvailable")
Acq2 == LotAcquistion(2, 10, "NotAvailable")
Acq2b == LotAcquistion(2, 20, "NotAvailable")
Acq3 == LotAcquistion(3, 10, "NotAvailable")
Acquisitions == {Acq1, Acq2, Acq2b, Acq3}

\* amounts requested of record_transfer (None = all), of record_deposit and
\* of the extraction before record_order
Amounts == {1, 2}
AmountsOrAll == {None} \cup {Some(n) : n \in Amounts}

\* The records add_account and update_account are called with: A holds an
\* old lot and a newer one, B a zero-amount oldest lot and a lot of the
\* acquisition of A's newer lot; BrokenB breaks the balance identity.
AccountA == TrackedAccount("A", 3, <<Lot(10, Acq1, 1), Lot(11, Acq2, 2)>>)
AccountB == TrackedAccount("B", 1, <<Lot(20, Acq1, 0), Lot(21, Acq2, 1)>>)
BrokenB == TrackedAccount("B", 2, <<Lot(20, Acq1, 0), Lot(21, Acq2, 1)>>)
KnownAccounts == {AccountA, AccountB, BrokenB}

----------------------------------------------------------------------------
\* The state machine of the ledger.

\* the Db value the handlers run on
Self == Db([accounts |-> accounts, deposits |-> deposits, transfers |-> transfers, orders |-> orders, disposed_lots |-> disposed_lots, next_lot_number |-> next_lot_number, transitory_sweep_stake_accounts |-> transitory_sweep_stake_accounts], disk, auto_save)

\* The state a call leaves: the Db value of the handler and, in `last`, the
\* call and its result.  A call that fails without changing anything leaves
\* no trace (the step stutters).
Return(self, call) ==
    IF call.res.tag \notin {"Ok", "Panic"} /\ self = Self
    THEN UNCHANGED vars
    ELSE /\ accounts' = self.db.accounts
         /\ deposits' = self.db.deposits
         /\ transfers' = self.db.transfers
         /\ orders' = self.db.orders
         /\ disposed_lots' = self.db.disposed_lots
         /\ next_lot_number' = self.db.next_lot_number
         /\ transitory_sweep_stake_accounts' = self.db.transitory_sweep_stake_accounts
         /\ auto_save' = self.auto_save
         /\ disk' = self.disk
         /\ last' = call
         /\ calls' = calls + 1

Call(op, res) == [op |-> op, res |-> res]

\* the process is alive (a panic ends it) and the run may go on
Running == last.res.tag # "Panic" /\ calls < MaxCalls

RECURSIVE SumLots(_)
SumLots(records) == IF records = <<>> THEN 0 ELSE SumAmounts(Head(records).lots) + SumLots(Tail(records))

\* the quantity held in accounts, pending transfers, open orders and disposed lots
Total == SumLots(accounts) + SumLots(transfers) + SumLots(orders) + SumAmounts([i \in 1..Len(disposed_lots) |-> disposed_lots[i].lot])

\* The files db::new finds: none (an empty store), or one with A and B registered
KnownStores == {EmptyStore, [EmptyStore EXCEPT !.accounts = <<AccountA, AccountB>>]}

\* db::new: the store is loaded from the file, auto_save is on
Init ==
    /\ disk \in KnownStores
    /\ accounts = disk.accounts
    /\ deposits = disk.deposits
    /\ transfers = disk.transfers
    /\ orders = disk.orders
    /\ disposed_lots = disk.disposed_lots
    /\ next_lot_number = disk.next_lot_number
    /\ transitory_sweep_stake_accounts = disk.transitory_sweep_stake_accounts
    /\ auto_save = TRUE
    /\ last = Call("new", Ok)
    /\ calls = 0

AddAccount(account) ==
    /\ Running
    /\ LET r == add_account(Self, account)
       IN Return(r.db, Call("add_account", r.res))

UpdateAccount(account) ==
    /\ Running
    /\ LET r == update_account(Self, account)
       IN Return(r.db, Call("update_account", r.res))

RemoveAccount(address) ==
    /\ Running
    /\ LET r == remove_account(Self, address)
       IN Return(r.db, Call("remove_account", r.res))

NextLotNumber ==
    /\ Running
    /\ LET r == next_lot_number_of(Self)
       IN Return(r.db, Call("next_lot_number", Ok))

RecordTransfer(signature, from_address, amount, to_address) ==
    /\ Running
    /\ LET r == record_transfer(Self, signature, from_address, amount, to_address)
       IN Return(r.db, Call("record_transfer", r.res))

ConfirmTransfer(signature) ==
    /\ Running
    /\ LET r == confirm_transfer(Self, signature)
       IN Return(r.db, Call("confirm_transfer", r.res))

CancelTransfer(signature) ==
    /\ Running
    /\ LET r == cancel_transfer(Self, signature)
       IN Return(r.db, Call("cancel_transfer", r.res))

RecordDeposit(signature, from_address, amount, exchange, deposit_address) ==
    /\ Running
    /\ LET r == record_deposit(Self, signature, from_address, amount, exchange, deposit_address)
       IN Return(r.db, Call("record_deposit", r.res))

ConfirmDeposit(signature) ==
    /\ Running
    /\ LET r == confirm_deposit(Self, signature)
       IN Return(r.db, Call("confirm_deposit", r.res))

CancelDeposit(signature) ==
    /\ Running
    /\ LET r == cancel_deposit(Self, signature)
       IN Return(r.db, Call("cancel_deposit", r.res))

\* The caller of record_order: it reads the deposit account, extracts the lots
\* of the order from it and passes both to record_order.  When the extraction
\* fails, record_order is not called.
RecordOrder(address, amount, exchange, pair, order_id) ==
    /\ Running
    /\ get_account(Self, address) # None
    /\ LET e == extract_lots(get_account(Self, address)[1], Self, amount)
           r == record_order(e.db, e.self, exchange, pair, order_id, e.lots)
       IN IF e.res # Ok
          THEN Return(e.db, Call("extract_lots", e.res))
          ELSE Return(r.db, Call("record_order", r.res))

ConfirmOrder(order_id, price, when) ==
    /\ Running
    /\ LET r == confirm_order(Self, order_id, price, when)
       IN Return(r.db, Call("confirm_order", r.res))

CancelOrder(order_id) ==
    /\ Running
    /\ LET r == cancel_order(Self, order_id)
       IN Return(r.db, Call("cancel_order", r.res))

Next ==
    \/ \E account \in KnownAccounts : AddAccount(account)
    \/ \E account \in KnownAccounts : UpdateAccount(account)
    \/ \E address \in Addresses : RemoveAccount(address)
    \/ NextLotNumber
    \/ \E signature \in Signatures, from_address \in Addresses, amount \in AmountsOrAll, to_address \in Addresses : RecordTransfer(signature, from_address, amount, to_address)
    \/ \E signature \in Signatures : ConfirmTransfer(signature)
    \/ \E signature \in Signatures : CancelTransfer(signature)
    \/ \E signature \in Signatures, from_address \in Addresses, amount \in Amounts, exchange \in Exchanges, deposit_address \in Addresses : RecordDeposit(signature, from_address, amount, exchange, deposit_address)
    \/ \E signature \in Signatures : ConfirmDeposit(signature)
    \/ \E signature \in Signatures : CancelDeposit(signature)
    \/ \E address \in Addresses, amount \in Amounts, exchange \in Exchanges, pair \in Pairs, order_id \in OrderIds : RecordOrder(address, amount, exchange, pair, order_id)
    \/ \E order_id \in OrderIds, price \in FillPrices, when \in FillDates : ConfirmOrder(order_id, price, when)
    \/ \E order_id \in OrderIds : CancelOrder(order_id)

Spec == Init /\ [][Next]_vars

----------------------------------------------------------------------------
\* The ledger together with the transitory sweep-stake operations, which add
\* and remove accounts of their own.

AddTransitorySweepStakeAddress(address) ==
    /\ Running
    /\ LET r == add_transitory_sweep_stake_address(Self, address)
       IN Return(r.db, Call("add_transitory_sweep_stake_address", r.res))

RemoveTransitorySweepStakeAddress(address) ==
    /\ Running
    /\ LET r == remove_transitory_sweep_stake_address(Self, address)
       IN Return(r.db, Call("remove_transitory_sweep_stake_address", r.res))

NextSweep ==
    \/ Next
    \/ \E address \in Addresses : AddTransitorySweepStakeAddress(address)
    \/ \E address \in Addresses : RemoveTransitorySweepStakeAddress(address)

SpecSweep == Init /\ [][NextSweep]_vars

----------------------------------------------------------------------------
\* The ledger started on a store with a history: an order of A was filled,
\* another order of A is open.

\* the store after the caller of record_order placed an order of the amount
OrderPlaced(self, address, amount, order_id) ==
    LET e == extract_lots(get_account(self, address)[1], self, amount)
    IN record_order(e.db, e.self, "Ftx", "SOLUSD", order_id, e.lots).db

\* the file left by a run that registered A and B, placed and filled order
\* o1 of A and placed order o2 of A
SeasonedStore ==
    LET registered == [EmptyStore EXCEPT !.accounts = <<AccountA, AccountB>>]
        placed == OrderPlaced(Db(registered, registered, TRUE), "A", 1, "o1")
        filled == confirm_order(placed, "o1", 25, 6).db
    IN OrderPlaced(filled, "A", 1, "o2").disk

InitSeasoned ==
    /\ disk = SeasonedStore
    /\ accounts = disk.accounts
    /\ deposits = disk.deposits
    /\ transfers = disk.transfers
    /\ orders = disk.orders
    /\ disposed_lots = disk.disposed_lots
    /\ next_lot_number = disk.next_lot_number
    /\ transitory_sweep_stake_accounts = disk.transitory_sweep_stake_accounts
    /\ auto_save = TRUE
    /\ last = Call("new", Ok)
    /\ calls = 0

SpecSeasoned == InitSeasoned /\ [][Next]_vars

----------------------------------------------------------------------------
\* The lot arithmetic on its own: an account is drawn, and extract_lots or
\* merge_lots is applied to it once.  The account sits in accounts[1]; `last`
\* keeps the account and the counter as they were, the argument and what the
\* method returned.

LotAmounts == {0, 1, 2}

\* the lot lists of length k: any acquisition and amount, lot numbers 11, 12, ...
DrawnLots(k) == {[i \in 1..k |-> Lot(10 + i, f[i][1], f[i][2])] : f \in [1..k -> Acquisitions \X LotAmounts]}

\* the account drawn with a lot list: the balance is the sum of its lots
DrawnAccount(lots) == TrackedAccount("A", SumAmounts(lots), lots)

\* the lot lists merged in: at most two lots of amount 1, of acquisition Acq2
\* or Acq3, lot numbers 31, 32
IncomingLots == UNION {{[i \in 1..k |-> Lot(30 + i, f[i], 1)] : f \in [1..k -> {Acq2, Acq3}]} : k \in 0..2}

InitLots ==
    /\ \E k \in 0..MaxLots : \E lots \in DrawnLots(k) : accounts = <<DrawnAccount(lots)>>
    /\ deposits = <<>>
    /\ transfers = <<>>
    /\ orders = <<>>
    /\ disposed_lots = <<>>
    /\ next_lot_number = None
    /\ transitory_sweep_stake_accounts = {}
    /\ auto_save = TRUE
    /\ disk = EmptyStore
    /\ last = Call("new", Ok)
    /\ calls = 0

ExtractLots(amount) ==
    /\ calls = 0
    /\ LET e == extract_lots(accounts[1], Self, amount)
       IN /\ accounts' = <<e.self>>
          /\ next_lot_number' = e.db.db.next_lot_number
          /\ last' = [op |-> "extract_lots", res |-> e.res, self |-> accounts[1], counter |-> next_lot_number, amount |-> amount, lots |-> e.lots]
          /\ calls' = 1
          /\ UNCHANGED <<deposits, transfers, orders, disposed_lots, transitory_sweep_stake_accounts, auto_save, disk>>

MergeLots(lots) ==
    /\ calls = 0
    /\ LET m == merge_lots(accounts[1], lots)
       IN /\ accounts' = <<m.self>>
          /\ last' = [op |-> "merge_lots", res |-> m.res, self |-> accounts[1], counter |-> next_lot_number, lots |-> lots]
          /\ calls' = 1
          /\ UNCHANGED <<deposits, transfers, orders, disposed_lots, next_lot_number, transitory_sweep_stake_accounts, auto_save, disk>>

NextLots ==
    \/ \E amount \in 0..(MaxLots * 2 + 1) : amount <= accounts[1].last_update_balance + 1 /\ ExtractLots(amount)
    \/ \E lots \in IncomingLots : MergeLots(lots)

SpecLots == InitLots /\ [][NextLots]_vars

----------------------------------------------------------------------------
\* Claims about the lot arithmetic (checked under SpecLots).

\* the lots of a list, as a set
Range(s) == {s[i] : i \in 1..Len(s)}

\* the amount a lot list holds under an acquisition
RECURSIVE AmountUnder(_, _)
AmountUnder(lots, acquisition) == IF lots = <<>> THEN 0 ELSE (IF Head(lots).acquisition = acquisition THEN Head(lots).amount ELSE 0) + AmountUnder(Tail(lots), acquisition)

\* C3 (extraction exactness): extract_lots applied to an account whose lots
\* sum to its balance, for an amount within the balance, returns Ok and lots
\* summing to the amount and leaves lots and balance of the total less the
\* amount; for an amount above the balance it returns
\* AccountHasInsufficientBalance and leaves lots, balance and counter alone.
C3_ExtractionExact ==
    (last.op = "extract_lots" /\ assert_lot_balance(last.self)) =>
        LET total == SumAmounts(last.self.lots)
        IN IF last.amount <= total
           THEN /\ last.res = Ok
                /\ SumAmounts(last.lots) = last.amount
                /\ SumAmounts(accounts[1].lots) = total - last.amount
                /\ accounts[1].last_update_balance = total - last.amount
           ELSE /\ last.res = Err("AccountHasInsufficientBalance", last.self.address)
                /\ last.lots = <<>>
                /\ accounts[1] = last.self
                /\ next_lot_number = last.counter

\* C3 witness: an extraction that split a lot, and left lots behind
C3_Witness ==
    /\ last.op = "extract_lots"
    /\ last.res = Ok
    /\ last.amount = 3
    /\ Len(last.self.lots) = 3
    /\ next_lot_number # last.counter
    /\ accounts[1].last_update_balance = 2

\* C3 witness of the error case: more than the balance was asked of an account with lots
C3_WitnessInsufficient ==
    /\ last.op = "extract_lots"
    /\ last.res.tag = "AccountHasInsufficientBalance"
    /\ Len(last.self.lots) = 2

\* the dates of the lots of a list are pairwise distinct
DistinctDates(lots) == \A i, j \in 1..Len(lots) : i # j => lots[i].acquisition.when # lots[j].acquisition.when

\* the lot of the earliest date
Oldest(lots) == CHOOSE l \in Range(lots) : \A o \in Range(lots) : l.acquisition.when <= o.acquisition.when

\* C4 (reserve lot last): with pairwise distinct dates and an amount below the
\* balance, the oldest lot stays in the account as it was whenever the other
\* lots together cover the amount; so it is consumed or split only when they
\* do not.
C4_ReserveLotLast ==
    (/\ last.op = "extract_lots"
     /\ last.res = Ok
     /\ last.self.lots # <<>>
     /\ DistinctDates(last.self.lots)
     /\ assert_lot_balance(last.self)
     /\ last.amount < last.self.last_update_balance) =>
        LET oldest == Oldest(last.self.lots)
            others == SumAmounts(last.self.lots) - oldest.amount
        IN /\ others >= last.amount => oldest \in Range(accounts[1].lots)
           /\ oldest \notin Range(accounts[1].lots) => others < last.amount

\* C4 witness: three dated lots, the oldest listed last; the two newer ones
\* cover the amount, one of them split
C4_Witness ==
    /\ last.op = "extract_lots"
    /\ last.res = Ok
    /\ Len(last.self.lots) = 3
    /\ DistinctDates(last.self.lots)
    /\ last.self.lots[3].acquisition.when = 1
    /\ last.self.lots[3].amount = 2
    /\ last.amount = 3
    /\ last.self.last_update_balance = 6
    /\ last.self.lots[3] \in Range(accounts[1].lots)
    /\ Len(accounts[1].lots) = 2

\* the acquisitions of the incoming lots that the account did not hold, in
\* the order of their first occurrence
RECURSIVE NovelAcquisitions(_, _)
NovelAcquisitions(held, incoming) == IF incoming = <<>> THEN <<>> ELSE LET a == Head(incoming).acquisition IN IF a \in held THEN NovelAcquisitions(held, Tail(incoming)) ELSE <<a>> \o NovelAcquisitions(held \cup {a}, Tail(incoming))

\* the first lot of a list with the acquisition
FirstUnder(lots, acquisition) == lots[FirstIndex({i \in 1..Len(lots) : lots[i].acquisition = acquisition})]

\* C5 (merge coalescing): after merge_lots every lot the account held is in
\* its place with its lot number and acquisition, the first lot of each
\* acquisition grown by the incoming amounts of that acquisition and every
\* other lot as it was; one lot is appended per acquisition the account did
\* not hold, in the order of arrival, with the lot number of the first
\* incoming lot of that acquisition and the incoming amounts of that
\* acquisition; the balance grows by the sum of the incoming amounts.
C5_MergeCoalescing ==
    (last.op = "merge_lots" /\ assert_lot_balance(last.self)) =>
        LET old == last.self.lots
            new == accounts[1].lots
            novel == NovelAcquisitions({l.acquisition : l \in Range(old)}, last.lots)
        IN /\ last.res = Ok
           /\ accounts[1].last_update_balance = last.self.last_update_balance + SumAmounts(last.lots)
           /\ Len(new) = Len(old) + Len(novel)
           /\ \A i \in 1..Len(old) :
                /\ new[i].lot_number = old[i].lot_number
                /\ new[i].acquisition = old[i].acquisition
                /\ new[i].amount = old[i].amount + (IF \A j \in 1..(i - 1) : old[j].acquisition # old[i].acquisition THEN AmountUnder(last.lots, old[i].acquisition) ELSE 0)
           /\ \A k \in 1..Len(novel) :
                /\ new[Len(old) + k].acquisition = novel[k]
                /\ new[Len(old) + k].lot_number = FirstUnder(last.lots, novel[k]).lot_number
                /\ new[Len(old) + k].amount = AmountUnder(last.lots, novel[k])

\* C5 witness: the account holds two lots of one acquisition and a lot of the
\* same date at another price; one incoming lot lands on the first of the
\* two, the other is appended
C5_Witness ==
    /\ last.op = "merge_lots"
    /\ last.res = Ok
    /\ Len(last.self.lots) = 3
    /\ last.self.lots[1].acquisition = Acq2b
    /\ last.self.lots[2].acquisition = Acq2
    /\ last.self.lots[3].acquisition = Acq2
    /\ Len(last.lots) = 2
    /\ last.lots[1].acquisition = Acq3
    /\ last.lots[2].acquisition = Acq2
    /\ Len(accounts[1].lots) = 4
    /\ accounts[1].lots[2].amount = last.self.lots[2].amount + 1
    /\ accounts[1].lots[3] = last.self.lots[3]
    /\ accounts[1].lots[4] = last.lots[1]

----------------------------------------------------------------------------
\* Claims about the ledger (checked under Spec).  A claim about what a
\* handler does is stated of the handler applied, with every input, to the
\* Db of every reachable state.

\* the calls that record or resolve a deposit, a transfer or an order
LifecycleOps == {"record_transfer", "record_deposit", "confirm_transfer", "cancel_transfer", "confirm_deposit", "cancel_deposit", "record_order", "confirm_order", "cancel_order"}

\* the account a Db holds under an address after a call that found it before
account_of(self, address) == get_account(self, address)[1]

\* both lot lists hold the same amount under every acquisition
SameHoldings(lots, others) == \A acquisition \in {l.acquisition : l \in Range(lots) \cup Range(others)} : AmountUnder(lots, acquisition) = AmountUnder(others, acquisition)

\* C1 (conservation), as claimed: no record or resolve call, successful or
\* failing, changes the quantity held in accounts, pending transfers, open
\* orders and disposed lots together.
C1_Conservation == [][(calls' # calls /\ last'.op \in LifecycleOps) => Total' = Total]_vars

\* C2 (balance identity): the lots of every stored account sum to its
\* last_update_balance, and add_account and update_account panic on a record
\* that breaks the identity, leaving the Db as it was.
C2_BalanceIdentity ==
    /\ \A i \in 1..Len(accounts) : assert_lot_balance(accounts[i])
    /\ \A account \in KnownAccounts : ~assert_lot_balance(account) =>
          /\ add_account(Self, account) = [db |-> Self, res |-> Panic]
          /\ update_account(Self, account) = [db |-> Self, res |-> Panic]

\* C2 witness: a transfer of one unit from B was confirmed into A, which now
\* holds four
C2_Witness ==
    /\ last = Call("confirm_transfer", Ok)
    /\ get_account(Self, "A") # None
    /\ account_of(Self, "A").last_update_balance = 4
    /\ account_of(Self, "B").last_update_balance = 0

\* the amount a record_transfer call asks for
Requested(self, from_address, amount) == unwrap_or(amount, account_of(self, from_address).last_update_balance)

\* record_transfer can succeed: both accounts exist and the amount is covered
Covered(self, from_address, amount, to_address) ==
    /\ get_account(self, from_address) # None
    /\ get_account(self, to_address) # None
    /\ Requested(self, from_address, amount) <= account_of(self, from_address).last_update_balance

\* what C7 says in both its forms: one pending transfer is appended, holding
\* lots of the requested amount, and the stored from account is reduced by it
RecordTransferMoves(self, r, signature, from_address, amount, to_address) ==
    LET requested == Requested(self, from_address, amount)
        pt == r.db.db.transfers[Len(r.db.db.transfers)]
    IN /\ r.res = Ok
       /\ r.db.db.transfers = Append(self.db.transfers, pt)
       /\ pt.signature = signature /\ pt.from_address = from_address /\ pt.to_address = to_address
       /\ SumAmounts(pt.lots) = requested
       /\ get_account(r.db, from_address) # None
       /\ account_of(r.db, from_address).last_update_balance = account_of(self, from_address).last_update_balance - requested
       /\ SumAmounts(account_of(r.db, from_address).lots) = SumAmounts(account_of(self, from_address).lots) - requested

\* C7 as claimed: moreover all of from's lots are gone when the amount is
\* None, and the to account and every other account are unchanged.
C7_AsClaimed ==
    \A signature \in Signatures, from_address \in Addresses, amount \in AmountsOrAll, to_address \in Addresses :
        Covered(Self, from_address, amount, to_address) =>
            LET r == record_transfer(Self, signature, from_address, amount, to_address)
            IN /\ RecordTransferMoves(Self, r, signature, from_address, amount, to_address)
               /\ amount = None => account_of(r.db, from_address).lots = <<>> /\ account_of(r.db, from_address).last_update_balance = 0
               /\ get_account(r.db, to_address) = get_account(Self, to_address)
               /\ \A other \in Addresses \ {from_address} : get_account(r.db, other) = get_account(Self, other)

\* C7 (amended): one pending transfer is appended, holding lots of the
\* requested amount, and the from account is reduced by it; when the amount
\* is None the from account is left with balance 0 and with no lot of a
\* non-zero amount; every account other than from_address, the to account
\* included when it is another account, is unchanged.
C7_RecordTransfer ==
    \A signature \in Signatures, from_address \in Addresses, amount \in AmountsOrAll, to_address \in Addresses :
        Covered(Self, from_address, amount, to_address) =>
            LET r == record_transfer(Self, signature, from_address, amount, to_address)
            IN /\ RecordTransferMoves(Self, r, signature, from_address, amount, to_address)
               /\ amount = None => account_of(r.db, from_address).last_update_balance = 0 /\ \A l \in Range(account_of(r.db, from_address).lots) : l.amount = 0
               /\ \A other \in Addresses \ {from_address} : get_account(r.db, other) = get_account(Self, other)

\* C7 witness: B transferred all it held to itself; the transfer holds the
\* unit, B is left with its zero-amount lot and balance 0, A is as it was
C7_Witness ==
    /\ last = Call("record_transfer", Ok)
    /\ Len(transfers) = 1
    /\ transfers[1].from_address = "B" /\ transfers[1].to_address = "B"
    /\ SumAmounts(transfers[1].lots) = 1
    /\ get_account(Self, "B") # None
    /\ account_of(Self, "B").last_update_balance = 0
    /\ account_of(Self, "B").lots = <<Lot(20, Acq1, 0)>>
    /\ get_account(Self, "A") = Some(AccountA)

\* C6 (round trip), as claimed: record_transfer of a covered amount followed
\* by cancel_transfer of the same signature leaves from_address with the
\* balance and the per-acquisition amounts it had, leaves to_address
\* unchanged, and leaves no pending transfer with that signature.
C6_RoundTripCancel ==
    \A signature \in Signatures, from_address \in Addresses, amount \in Amounts, to_address \in Addresses :
        Covered(Self, from_address, Some(amount), to_address) =>
            LET recorded == record_transfer(Self, signature, from_address, Some(amount), to_address)
                cancelled == cancel_transfer(recorded.db, signature)
            IN /\ recorded.res = Ok /\ cancelled.res = Ok
               /\ get_account(cancelled.db, from_address) # None
               /\ account_of(cancelled.db, from_address).last_update_balance = account_of(Self, from_address).last_update_balance
               /\ SameHoldings(account_of(cancelled.db, from_address).lots, account_of(Self, from_address).lots)
               /\ to_address # from_address => get_account(cancelled.db, to_address) = get_account(Self, to_address)
               /\ \A i \in 1..Len(cancelled.db.db.transfers) : cancelled.db.db.transfers[i].signature # signature

\* the pending transfer a resolve call finds under a signature
PendingUnder(self, signature) == self.db.transfers[FirstIndex({i \in 1..Len(self.db.transfers) : self.db.transfers[i].signature = signature})]

\* C8 (confirm_transfer), as claimed: confirming a pending transfer whose
\* accounts are registered removes it, adds the amount of its lots to the
\* to account's balance and merges the lots into the to account's lots,
\* whether or not to_address is from_address, and leaves a from account
\* that is another account unchanged.
C8_ConfirmTransfer ==
    \A signature \in {pt.signature : pt \in Range(transfers)} :
        LET pt == PendingUnder(Self, signature)
            confirmed == confirm_transfer(Self, signature)
        IN (get_account(Self, pt.from_address) # None /\ get_account(Self, pt.to_address) # None) =>
              /\ confirmed.res = Ok
              /\ \A i \in 1..Len(confirmed.db.db.transfers) : confirmed.db.db.transfers[i].signature # signature
              /\ get_account(confirmed.db, pt.to_address) # None
              /\ account_of(confirmed.db, pt.to_address).last_update_balance = account_of(Self, pt.to_address).last_update_balance + SumAmounts(pt.lots)
              /\ account_of(confirmed.db, pt.to_address).lots = merge_loop(account_of(Self, pt.to_address).lots, pt.lots)
              /\ pt.from_address # pt.to_address => get_account(confirmed.db, pt.from_address) = get_account(Self, pt.from_address)

\* C9 (order cancel), as claimed: cancel_order on an open order whose
\* deposit account is registered removes the order, merges its lots back
\* into that account (the account then holds, under every acquisition, what
\* it held plus what the order held), raising the balance by their sum, and
\* adds nothing to disposed_lots.
C9_OrderCancel ==
    \A i \in 1..Len(orders) :
        LET order == orders[i]
            cancelled == cancel_order(Self, order.order_id)
        IN get_account(Self, order.deposit_address) # None =>
              /\ cancelled.res = Ok
              /\ order \notin Range(cancelled.db.db.orders)
              /\ get_account(cancelled.db, order.deposit_address) # None
              /\ account_of(cancelled.db, order.deposit_address).last_update_balance = account_of(Self, order.deposit_address).last_update_balance + SumAmounts(order.lots)
              /\ SameHoldings(account_of(cancelled.db, order.deposit_address).lots, account_of(Self, order.deposit_address).lots \o order.lots)
              /\ cancelled.db.db.disposed_lots = disposed_lots

\* C10 (order fill), as claimed: confirm_order on an open order appends one
\* DisposedLot per lot of that order, each with the given date and price and
\* a Fiat kind of the order's exchange, pair and order_id; no open order
\* with that order_id remains, every other open order is still there
\* unchanged, and no account changes.
C10_OrderFill ==
    \A i \in 1..Len(orders), price \in FillPrices, when \in FillDates :
        LET order == orders[i]
            filled == confirm_order(Self, order.order_id, price, when)
        IN /\ filled.res = Ok
           /\ filled.db.db.disposed_lots = disposed_lots \o dispose(order.lots, when, price, LotDisposalKind(order.exchange, order.pair, order.order_id))
           /\ \A j \in 1..Len(filled.db.db.orders) : filled.db.db.orders[j].order_id # order.order_id
           /\ filled.db.db.orders = RemoveAt(orders, i)
           /\ filled.db.db.accounts = accounts

----------------------------------------------------------------------------
\* Claims about the registry, the deposits and the identifiers.

\* C11 (account registry errors): for a record that satisfies the balance
\* identity, add_account on a registered address returns
\* AccountAlreadyExists, and update_account and remove_account on an address
\* that is not registered return AccountDoesNotExist, each leaving the Db as
\* it was; update_account on a registered address returns Ok, after which the
\* stored records are the record passed and the records of the other
\* addresses, unchanged.
C11_RegistryErrors ==
    /\ \A account \in {a \in KnownAccounts : assert_lot_balance(a)} :
          IF get_account(Self, account.address) # None
          THEN /\ add_account(Self, account) = [db |-> Self, res |-> Err("AccountAlreadyExists", account.address)]
               /\ LET updated == update_account(Self, account)
                  IN /\ updated.res = Ok
                     /\ Range(updated.db.db.accounts) = {a \in Range(accounts) : a.address # account.address} \cup {account}
                     /\ Len(updated.db.db.accounts) = Len(accounts)
          ELSE update_account(Self, account) = [db |-> Self, res |-> Err("AccountDoesNotExist", account.address)]
    /\ \A address \in Addresses :
          get_account(Self, address) = None => remove_account(Self, address) = [db |-> Self, res |-> Err("AccountDoesNotExist", address)]

\* C11 witness: A, reduced by a pending transfer, was put back as AccountA by
\* update_account while B is stored as it was; an add_account of A would be
\* refused
C11_Witness ==
    /\ last = Call("update_account", Ok)
    /\ transfers # <<>>
    /\ accounts = <<AccountB, AccountA>>
    /\ add_account(Self, AccountA).res.tag = "AccountAlreadyExists"

\* C12 (deposit/transfer pairing), as claimed: every pending deposit has a
\* pending transfer of its signature whose lots sum to the deposit's amount.
C12_DepositPairing ==
    \A i \in 1..Len(deposits) :
        \E j \in 1..Len(transfers) :
            /\ transfers[j].signature = deposits[i].signature
            /\ SumAmounts(transfers[j].lots) = deposits[i].amount

\* a pending deposit, a pending transfer of the signature, and the
\* transfer's two accounts are in the store
DepositResolvable(self, signature) ==
    /\ \E pd \in Range(self.db.deposits) : pd.signature = signature
    /\ \E pt \in Range(self.db.transfers) : pt.signature = signature
    /\ get_account(self, PendingUnder(self, signature).from_address) # None
    /\ get_account(self, PendingUnder(self, signature).to_address) # None

\* C13 (deposit cancel equals deposit confirm), as claimed: cancel_deposit and
\* confirm_deposit return the same result and the same state; for a pending
\* deposit both remove the deposit and its transfer and merge the held lots
\* into the to_address account, and the from_address account gets nothing
\* back.
C13_DepositCancelIsConfirm ==
    \A signature \in Signatures :
        LET cancelled == cancel_deposit(Self, signature)
            confirmed == confirm_deposit(Self, signature)
            pt == PendingUnder(Self, signature)
        IN /\ cancelled = confirmed
           /\ DepositResolvable(Self, signature) =>
                /\ cancelled.res = Ok
                /\ \A pd \in Range(cancelled.db.db.deposits) : pd.signature # signature
                /\ \A p \in Range(cancelled.db.db.transfers) : p.signature # signature
                /\ get_account(cancelled.db, pt.to_address) # None
                /\ account_of(cancelled.db, pt.to_address).last_update_balance = account_of(Self, pt.to_address).last_update_balance + SumAmounts(pt.lots)
                /\ account_of(cancelled.db, pt.to_address).lots = merge_loop(account_of(Self, pt.to_address).lots, pt.lots)
                /\ pt.from_address # pt.to_address => get_account(cancelled.db, pt.from_address) = get_account(Self, pt.from_address)

\* the lots of a pending transfer are on file: the record is still pending
\* there, or the account they go to (to_address when confirmed, from_address
\* when cancelled) holds as much more than before as they amount to
OnFile(file, before, pt, success) ==
    LET address == IF success THEN pt.to_address ELSE pt.from_address
        now == {a \in Range(file.accounts) : a.address = address}
    IN \/ pt \in Range(file.transfers)
       \/ \E a \in now : a.last_update_balance = account_of(before, address).last_update_balance + SumAmounts(pt.lots)

\* C14 (crash atomicity of transfer resolution), as claimed: when the file is
\* up to date and both accounts of a pending transfer are registered,
\* confirm_transfer and cancel_transfer run all five statements; the file is
\* untouched after each of the first four (no flush between removing the
\* pending transfer and writing both accounts) and is the whole store after
\* the fifth (one flush, after both account writes), so that the file holds
\* none or all of the changes; and the file left by a crash after any of the
\* statements holds the transferred quantity, in the pending transfer or in
\* the account it goes to.
C14_CrashAtomicity ==
    \A signature \in {pt.signature : pt \in Range(transfers)} : \A success \in BOOLEAN :
        LET pt == PendingUnder(Self, signature)
            steps == complete_transfer_steps(Self, signature, success)
        IN (/\ auto_save
            /\ disk = Self.db
            /\ get_account(Self, pt.from_address) # None
            /\ get_account(Self, pt.to_address) # None) =>
              /\ Len(steps) = 5
              /\ \A i \in 1..4 : steps[i].disk = disk
              /\ steps[5].db = steps[4].db
              /\ steps[5].disk = steps[5].db
              /\ \A i \in 1..5 : OnFile(steps[i].disk, Self, pt, success)

\* the calls that reach Db::next_lot_number: the call itself and the calls
\* that extract lots
CounterOps == {"next_lot_number", "record_transfer", "record_deposit", "record_order"}

\* C15 (lot numbering): next_lot_number returns the counter (0 when it is
\* absent), stores that value plus one and touches neither another key nor
\* the file; over every step the counter never goes down, and it moves only
\* in a call that reaches next_lot_number, by one.
C15_LotNumbering ==
    [][/\ LET n == next_lot_number_of(Self)
          IN /\ n.lot_number = unwrap_or(next_lot_number, 0)
             /\ n.db = [Self EXCEPT !.db.next_lot_number = Some(n.lot_number + 1)]
       /\ unwrap_or(next_lot_number', 0) >= unwrap_or(next_lot_number, 0)
       /\ next_lot_number' # next_lot_number =>
             /\ last'.op \in CounterOps
             /\ next_lot_number' = Some(unwrap_or(next_lot_number, 0) + 1)]_vars

\* C15 witness: a split took lot number 0 for the lot of a pending transfer,
\* then next_lot_number returned 1 and left 2; the file still holds the 1
\* that record_transfer saved
C15_Witness ==
    /\ last = Call("next_lot_number", Ok)
    /\ next_lot_number = Some(2)
    /\ Len(transfers) = 1
    /\ transfers[1].lots[1].lot_number = 0
    /\ disk.next_lot_number = Some(1)

\* the call changes nothing and returns the error
Refused(self, call, tag, of) == call = [db |-> self, res |-> Err(tag, of)]

\* C16 (resolution is terminal): confirm_transfer and cancel_transfer on a
\* signature with no pending transfer return PendingTransferDoesNotExist and
\* change nothing, and that is the state of the signature right after either
\* of them returned Ok; confirm_order and cancel_order on an order_id with no
\* open order return OpenOrderDoesNotExist, confirm_deposit and
\* cancel_deposit on a signature with no pending deposit return
\* PendingDepositDoesNotExist, each changing nothing.
C16_ResolutionTerminal ==
    /\ \A signature \in Signatures :
          /\ (\A pt \in Range(transfers) : pt.signature # signature) =>
                /\ Refused(Self, confirm_transfer(Self, signature), "PendingTransferDoesNotExist", signature)
                /\ Refused(Self, cancel_transfer(Self, signature), "PendingTransferDoesNotExist", signature)
          /\ \A resolved \in {confirm_transfer(Self, signature), cancel_transfer(Self, signature)} :
                resolved.res = Ok =>
                   /\ \A pt \in Range(resolved.db.db.transfers) : pt.signature # signature
                   /\ Refused(resolved.db, confirm_transfer(resolved.db, signature), "PendingTransferDoesNotExist", signature)
                   /\ Refused(resolved.db, cancel_transfer(resolved.db, signature), "PendingTransferDoesNotExist", signature)
          /\ (\A pd \in Range(deposits) : pd.signature # signature) =>
                /\ Refused(Self, confirm_deposit(Self, signature), "PendingDepositDoesNotExist", signature)
                /\ Refused(Self, cancel_deposit(Self, signature), "PendingDepositDoesNotExist", signature)
    /\ \A order_id \in OrderIds :
          (\A o \in Range(orders) : o.order_id # order_id) =>
             /\ Refused(Self, cancel_order(Self, order_id), "OpenOrderDoesNotExist", order_id)
             /\ \A price \in FillPrices, when \in FillDates : Refused(Self, confirm_order(Self, order_id, price, when), "OpenOrderDoesNotExist", order_id)

\* C16 witness: a pending transfer was cancelled; none is pending and the
\* lots are back in A, and a further resolve of s1 is refused
C16_Witness ==
    /\ last = Call("cancel_transfer", Ok)
    /\ transfers = <<>>
    /\ get_account(Self, "A") # None
    /\ account_of(Self, "A").last_update_balance = 3
    /\ confirm_transfer(Self, "s1").res = Err("PendingTransferDoesNotExist", "s1")

\* C17 (disposed lots are append-only), checked on the store with a
\* history: over every step the disposed-lots list of the state before is a
\* prefix of the list after, and the list grows only in a confirm_order call.
C17_DisposedAppendOnly ==
    [][/\ Len(disposed_lots) <= Len(disposed_lots')
       /\ SubSeq(disposed_lots', 1, Len(disposed_lots)) = disposed_lots
       /\ disposed_lots' # disposed_lots => last'.op = "confirm_order"]_vars

\* C17 witness: confirm_order of o2 appended its lot after the disposed lot
\* the store already held
C17_Witness ==
    /\ last = Call("confirm_order", Ok)
    /\ Len(disposed_lots) = 2
    /\ disposed_lots[1] = SeasonedStore.disposed_lots[1]
    /\ disposed_lots[1].kind.order_id = "o1"
    /\ disposed_lots[2].kind.order_id = "o2"
    /\ orders = <<>>

\* C18 (pending-transfer signatures are unique), as claimed: no two pending
\* transfers have the same signature.
C18_SignaturesUnique ==
    \A i, j \in 1..Len(transfers) : i # j => transfers[i].signature # transfers[j].signature

\* C19 (account addresses are unique), with the transitory sweep-stake
\* operations among the steps: no two stored accounts have the same address,
\* and after add_account or update_account returned Ok get_account of the
\* address returns the record that was passed.
C19_AddressesUnique ==
    /\ \A i, j \in 1..Len(accounts) : i # j => accounts[i].address # accounts[j].address
    /\ \A account \in KnownAccounts :
          /\ add_account(Self, account).res = Ok => get_account(add_account(Self, account).db, account.address) = Some(account)
          /\ update_account(Self, account).res = Ok => get_account(update_account(Self, account).db, account.address) = Some(account)

\* C19 witness: B was registered by add_account and A, empty, by
\* add_transitory_sweep_stake_address; an add_account of A is refused
C19_Witness ==
    /\ last = Call("add_transitory_sweep_stake_address", Ok)
    /\ accounts = <<AccountB, TrackedAccount("A", 0, <<>>)>>
    /\ transitory_sweep_stake_accounts = {"A"}
    /\ add_account(Self, AccountA).res = Err("AccountAlreadyExists", "A")

----------------------------------------------------------------------------
\* A further claim about the lot arithmetic (checked under SpecLots).

\* C20 (lot split): of the lots extract_lots returns at most one is not a lot
\* the account held, and of the lots it leaves at most one; when there is
\* such a pair, a lot of the account with amount a was split: the piece left
\* has its lot number and acquisition and the piece returned the same
\* acquisition, the number next_lot_number returned and an amount r with
\* 0 < r < a, the piece left a - r, and the counter is one further; when
\* there is none the counter is where it was.  No other lot is added or lost.
C20_LotSplit ==
    (last.op = "extract_lots" /\ last.res = Ok) =>
        LET held == Range(last.self.lots)
            taken == {l \in Range(last.lots) : l \notin held}
            left == {l \in Range(accounts[1].lots) : l \notin held}
        IN /\ Cardinality(taken) <= 1
           /\ Cardinality(left) = Cardinality(taken)
           /\ Len(last.lots) + Len(accounts[1].lots) = Len(last.self.lots) + Cardinality(taken)
           /\ taken = {} => next_lot_number = last.counter
           /\ \A piece \in taken, rest \in left :
                /\ piece.lot_number = unwrap_or(last.counter, 0)
                /\ next_lot_number = Some(piece.lot_number + 1)
                /\ \E lot \in held :
                      /\ lot \notin Range(last.lots) \cup Range(accounts[1].lots)
                      /\ rest.lot_number = lot.lot_number
                      /\ rest.acquisition = lot.acquisition
                      /\ piece.acquisition = lot.acquisition
                      /\ 0 < piece.amount /\ piece.amount < lot.amount
                      /\ rest.amount = lot.amount - piece.amount

\* C20 witness: one unit is taken of an account holding two lots of 2; the
\* older lot is kept whole, the newer one is split into the returned piece,
\* numbered 0, and the piece left
C20_Witness ==
    /\ last.op = "extract_lots"
    /\ last.res = Ok
    /\ last.amount = 1
    /\ last.self.lots = <<Lot(11, Acq1, 2), Lot(12, Acq2, 2)>>
    /\ last.lots = <<Lot(0, Acq2, 1)>>
    /\ accounts[1].lots = <<Lot(11, Acq1, 2), Lot(12, Acq2, 1)>>
    /\ next_lot_number = Some(1)

\* C21 (record_transfer is all-or-nothing on error): record_transfer returns
\* AccountDoesNotExist when from_address or to_address is not registered and
\* AccountHasInsufficientBalance when the amount is above the balance of
\* from_address, and whenever it returns one of the two, the accounts, the
\* pending transfers, the pending deposits and the lot-number counter are as
\* before the call.
C21_RecordTransferAllOrNothing ==
    \A signature \in Signatures, from_address \in Addresses, amount \in AmountsOrAll, to_address \in Addresses :
        LET r == record_transfer(Self, signature, from_address, amount, to_address)
        IN /\ get_account(Self, from_address) = None => r.res = Err("AccountDoesNotExist", from_address)
           /\ (get_account(Self, from_address) # None /\ get_account(Self, to_address) = None) => r.res = Err("AccountDoesNotExist", to_address)
           /\ (/\ get_account(Self, from_address) # None
               /\ get_account(Self, to_address) # None
               /\ amount # None
               /\ amount[1] > account_of(Self, from_address).last_update_balance) => r.res = Err("AccountHasInsufficientBalance", from_address)
           /\ r.res.tag \in {"AccountDoesNotExist", "AccountHasInsufficientBalance"} =>
                 /\ r.db.db.accounts = accounts
                 /\ r.db.db.transfers = transfers
                 /\ r.db.db.deposits = deposits
                 /\ r.db.db.next_lot_number = next_lot_number

\* C21 witness: a transfer of 2 out of A is pending and B was removed; a
\* transfer to B is refused for the missing account, one of 2 out of A for
\* the balance (1), and both leave the store as it is
C21_Witness ==
    /\ transfers # <<>>
    /\ get_account(Self, "A") # None
    /\ get_account(Self, "B") = None
    /\ Refused(Self, record_transfer(Self, "s2", "A", Some(1), "B"), "AccountDoesNotExist", "B")
    /\ Refused(Self, record_transfer(Self, "s2", "B", Some(1), "A"), "AccountDoesNotExist", "B")
    /\ Refused(Self, record_transfer(Self, "s2", "A", Some(2), "A"), "AccountHasInsufficientBalance", "A")

\* a call that returned an error left the deposits, the transfers, the orders
\* and the accounts as they were
NothingChanged(self, r) ==
    r.res.tag \notin {"Ok", "Panic"} =>
        /\ r.db.db.deposits = self.db.deposits
        /\ r.db.db.transfers = self.db.transfers
        /\ r.db.db.orders = self.db.orders
        /\ r.db.db.accounts = self.db.accounts

\* C22 (a failed deposit or resolve operation changes nothing), as claimed:
\* whenever record_deposit, confirm_deposit, cancel_deposit,
\* confirm_transfer, cancel_transfer or cancel_order returns an error, the
\* pending deposits, the pending transfers, the open orders and the accounts
\* are as before the call.
C22_FailedCallChangesNothing ==
    /\ \A signature \in Signatures, from_address \in Addresses, amount \in Amounts, exchange \in Exchanges, deposit_address \in Addresses :
          NothingChanged(Self, record_deposit(Self, signature, from_address, amount, exchange, deposit_address))
    /\ \A signature \in Signatures :
          /\ NothingChanged(Self, confirm_deposit(Self, signature))
          /\ NothingChanged(Self, cancel_deposit(Self, signature))
          /\ NothingChanged(Self, confirm_transfer(Self, signature))
          /\ NothingChanged(Self, cancel_transfer(Self, signature))
    /\ \A order_id \in OrderIds : NothingChanged(Self, cancel_order(Self, order_id))

\* the public mutating operations of Db other than next_lot_number and
\* add_account_no_save
FlushedOps == {"add_account", "update_account", "remove_account", "record_transfer", "confirm_transfer", "cancel_transfer", "record_deposit", "confirm_deposit", "cancel_deposit", "record_order", "confirm_order", "cancel_order", "add_transitory_sweep_stake_address", "remove_transitory_sweep_stake_address"}

\* C23 (every successful public mutation is flushed), as claimed: right after
\* one of these operations returned Ok, the file equals the in-memory store
\* and auto_save is on.
C23_MutationsFlushed ==
    (last.op \in FlushedOps /\ last.res = Ok) => (disk = Self.db /\ auto_save)

====
